---- MODULE Spec2Model ----
(***************************************************************************)
(* The schedulable job entity of lib/apscheduler/job.py: the validated,    *)
(* all-or-nothing mutation (Job._modify), the run-time enumeration         *)
(* (Job._get_run_times) and the versioned snapshot (__getstate__ and       *)
(* __setstate__).  Python values are records tagged with their type in     *)
(* the field ty, so that the isinstance tests of the code are tests of     *)
(* the tag.                                                                 *)
(***************************************************************************)
EXTENDS Integers, Sequences, FiniteSets, TLC

VARIABLES
    job,        \* the fields (slots) of the Job the scheduler holds
    pc,         \* position of the caller: "idle", "loop" (inside the while
                \* loop of _get_run_times) or "returned"
    op,         \* the operation last called
    changes,    \* the keyword arguments of the last _modify / __init__
    pre,        \* the fields of the job when the last call started
    outcome,    \* "ok", or the exception class the last call raised
    now,        \* the horizon of the running _get_run_times call
    next_run_time, \* the local variable of _get_run_times
    run_times,  \* the list _get_run_times builds and returns
    queries,    \* calls of trigger.get_next_fire_time made by the running call
    prev,       \* the last _get_run_times call that returned: its inputs and result
    state,      \* the snapshot __getstate__ returned
    tamper,     \* what became of the snapshot before __setstate__ was given it
    loaded,     \* the fields of the object __setstate__ was called on
    other,      \* a second object, the right-hand side of job == other
    equal,      \* what job == other returned
    approved,   \* the dict `approved` of the _modify call that is committing
    todo,       \* the keys of `approved` the commit loop has not yet assigned
    seen        \* the fields of the job as another thread last read them

vars == <<job, pc, op, changes, pre, outcome, now, next_run_time, run_times,
          queries, prev, state, tamper, loaded, other, equal, approved, todo,
          seen>>

-----------------------------------------------------------------------------
(* Bounds of the model. *)

\* Timestamps are 0..MaxTime.
MaxTime == 5
\* The while loop of _get_run_times is followed for at most MaxRuns appends:
\* more than a strictly monotonic trigger allows (one that is not never
\* leaves the loop).
MaxRuns == MaxTime + 2
\* the largest number of keys in one change set of modify
MaxChanges == 2

-----------------------------------------------------------------------------
(* Python values. *)

Unset == [ty |-> "unset"]          \* a slot no value was assigned to
Raise(e) == [ty |-> "raise", exc |-> e]  \* a call that raised e
Raised(r) == r.ty = "raise"
None == [ty |-> "None"]
PyStr(s) == [ty |-> "str", s |-> s]
PyInt(n) == [ty |-> "int", n |-> n]
PyFloat(n) == [ty |-> "float", n |-> n]
PyBool(b) == [ty |-> "bool", b |-> b]
PyList(n) == [ty |-> "list", len |-> n]
PyDict(ks) == [ty |-> "dict", keys |-> ks]
PyFunc(f) == [ty |-> "function", fn |-> f]
PyTrigger(t) == [ty |-> "trigger", kind |-> t]
PyDatetime(t) == [ty |-> "datetime", t |-> t]

\* isinstance(value, six.string_types)
IsString(v) == v.ty = "str"
\* isinstance(value, six.integer_types): bool is a subclass of int
IsInteger(v) == v.ty \in {"int", "bool"}
\* the value of an integer (True is 1, False is 0)
IntValue(v) == IF v.ty = "bool" THEN (IF v.b THEN 1 ELSE 0) ELSE v.n
\* the truth value of an object: `not value`, `id or ...`, bool(value)
Truthy(v) ==
    CASE v.ty = "None" -> FALSE
      [] v.ty = "str" -> v.s # ""
      [] v.ty \in {"int", "float"} -> v.n # 0
      [] v.ty = "bool" -> v.b
      [] v.ty = "list" -> v.len # 0
      [] v.ty = "dict" -> v.keys # {}
      [] OTHER -> TRUE

-----------------------------------------------------------------------------
(* The external collaborators of the Job: the callable registry, the       *)
(* signature check, the timestamp conversion (apscheduler.util) and the    *)
(* triggers (apscheduler.triggers).                                         *)

\* The callables of the process: f is a module-level function (def f(x,
\* k=None)) of module m, lam is a lambda (lambda *a), for which no textual
\* reference can be derived.
Callables == {"f", "lam"}

\* ref_to_obj(ref): the callable a textual reference resolves to; raises
\* LookupError when the target does not exist.
ref_to_obj(ref) ==
    IF ref = "m:f" THEN PyFunc("f") ELSE Raise("LookupError")

\* obj_to_ref(func): the textual reference of a callable; raises ValueError
\* when none can be determined.
obj_to_ref(func) ==
    IF func.fn = "f" THEN PyStr("m:f") ELSE Raise("ValueError")

\* get_callable_name(func)
get_callable_name(func) ==
    IF func.fn = "f" THEN PyStr("f") ELSE PyStr("<lambda>")

\* len(args) of an iterable that is not a string
ArgCount(args) == IF args.ty = "dict" THEN Cardinality(args.keys) ELSE args.len

\* check_callable_args(func, args, kwargs) raises ValueError unless the
\* signature binds: def f(x, k=None), lambda *a.
SignatureAccepts(func, args, kwargs) ==
    IF func.fn = "f"
    THEN ArgCount(args) = 1 /\ kwargs.keys \subseteq {"k"}
    ELSE kwargs.keys = {}

\* convert_to_datetime(value, tz, name): None and datetimes pass, any other
\* type raises TypeError.
convert_to_datetime(value) ==
    IF value.ty \in {"None", "datetime"} THEN value ELSE Raise("TypeError")

Time == 0 .. MaxTime

\* The fire times of the "dates" trigger (10:05, 10:10 and 10:20 of a clock
\* whose tick 0 is 10:00, tick 3 is 10:12 and tick 5 is 10:21).
FireTimes == {1, 2, 4}
\* The period of the "interval" trigger.
Interval == 2

TriggerKinds == {"date", "dates", "interval", "stuck"}

\* The trigger kinds that never return a value <= previous.
StrictlyMonotonic(kind) == kind # "stuck"

Min(S) == CHOOSE x \in S : \A y \in S : x <= y

\* trigger.get_next_fire_time(previous, now) with previous a timestamp:
\* a timestamp or None.
\*   date      a single run date: nothing follows a previous fire time
\*   dates     the next of FireTimes after previous
\*   interval  previous + Interval, until the end date MaxTime
\*   stuck     returns previous again (not strictly monotonic)
get_next_fire_time(kind, previous, horizon) ==
    CASE kind = "date" -> None
      [] kind = "dates" ->
            IF \E t \in FireTimes : t > previous
            THEN PyDatetime(Min({t \in FireTimes : t > previous}))
            ELSE None
      [] kind = "interval" ->
            IF previous + Interval <= MaxTime
            THEN PyDatetime(previous + Interval)
            ELSE None
      [] OTHER -> PyDatetime(previous)

-----------------------------------------------------------------------------
(* The Job. *)

\* __slots__ without _scheduler
Slots == {"_jobstore_alias", "id", "trigger", "executor", "func", "func_ref",
          "args", "kwargs", "name", "misfire_grace_time", "coalesce",
          "max_instances", "next_run_time"}

\* An object no slot of which was assigned (before __init__ or __setstate__).
NoJob == [k \in Slots |-> Unset]

\* hasattr(self, k)
hasattr(j, k) == j[k] # Unset

\* the keys of a change set
Has(ch, k) == k \in DOMAIN ch

\* lines 84-88: the property pending
pending(j) == j["_jobstore_alias"] = None

\* Commit with the bug of assigning _jobstore_alias as __init__ does
Commit_Unbinds(j, items) ==
    [k \in Slots |->
        IF k = "_jobstore_alias" THEN None
        ELSE IF k \in DOMAIN items THEN items[k] ELSE j[k]]

\* for key, value in approved: setattr(self, key, value)
Commit(j, items) ==
    [k \in Slots |-> IF k \in DOMAIN items THEN items[k] ELSE j[k]]

-----------------------------------------------------------------------------
(* Job._modify: the validation runs through the stages listed below in     *)
(* this order, each popping its keys from the change set and either        *)
(* raising or adding to `approved`; the commit follows the last stage.     *)

Stages == <<"id", "func", "name", "misfire_grace_time", "coalesce",
            "max_instances", "trigger", "executor", "next_run_time", "rest">>

ModifiableKeys == {"id", "func", "args", "kwargs", "name",
                   "misfire_grace_time", "coalesce", "max_instances",
                   "trigger", "executor", "next_run_time"}

\* 'func' in changes or 'args' in changes or 'kwargs' in changes
HasCallableGroup(ch) == Has(ch, "func") \/ Has(ch, "args") \/ Has(ch, "kwargs")

\* func, args, kwargs of lines 124-126: the change, else the current value
\* (an unassigned slot raises AttributeError when read)
GroupValue(j, ch, k) == IF Has(ch, k) THEN ch[k] ELSE j[k]

\* lines 128-138: the callable and its textual reference, or the exception
ResolveFunc(func) ==
    CASE func.ty = "str" ->
            IF Raised(ref_to_obj(func.s))
            THEN ref_to_obj(func.s)
            ELSE [ty |-> "resolved", func |-> ref_to_obj(func.s), func_ref |-> func]
      [] func.ty = "function" ->
            [ty |-> "resolved", func |-> func,
             func_ref |-> IF Raised(obj_to_ref(func)) THEN None ELSE obj_to_ref(func)]
      [] OTHER -> Raise("TypeError")

\* isinstance(args, Iterable)
IsIterable(v) == v.ty \in {"str", "list", "dict"}
\* isinstance(kwargs, Mapping)
IsMapping(v) == v.ty = "dict"

\* WithDefaultName with the bug of deriving the name anew at every change of
\* the callable
WithDefaultName_Always(j, ch) ==
    IF /\ HasCallableGroup(ch)
       /\ (~Has(ch, "name") \/ ch["name"] = None)
       /\ ~Raised(ResolveFunc(GroupValue(j, ch, "func")))
    THEN [k \in DOMAIN ch \cup {"name"} |->
            IF k = "name"
            THEN get_callable_name(ResolveFunc(GroupValue(j, ch, "func")).func)
            ELSE ch[k]]
    ELSE ch

\* lines 140-141: the change set as the later stages see it, with the default
\* name added when the job has no name and none (or None) is supplied
WithDefaultName(j, ch) ==
    IF /\ HasCallableGroup(ch)
       /\ ~hasattr(j, "name")
       /\ (~Has(ch, "name") \/ ch["name"] = None)
       /\ ~Raised(ResolveFunc(GroupValue(j, ch, "func")))
    THEN [k \in DOMAIN ch \cup {"name"} |->
            IF k = "name"
            THEN get_callable_name(ResolveFunc(GroupValue(j, ch, "func")).func)
            ELSE ch[k]]
    ELSE ch

NoChanges == [k \in {} |-> None]

\* IdError with the bug of refusing only an id that differs from the current one
IdError_OnlyIfDifferent(j, ch) ==
    IF ~Has(ch, "id") THEN "ok"
    ELSE IF ~IsString(ch["id"]) THEN "TypeError"
    ELSE IF hasattr(j, "id") /\ ch["id"] # j["id"] THEN "ValueError"
    ELSE "ok"

\* lines 115-121: the exception the id stage raises, or "ok"
IdError(j, ch) ==
    IF ~Has(ch, "id") THEN "ok"
    ELSE IF ~IsString(ch["id"]) THEN "TypeError"
    ELSE IF hasattr(j, "id") THEN "ValueError"
    ELSE "ok"

\* CallableError with the bug of leaving out check_callable_args
CallableError_NoSignature(j, ch) ==
    IF ~HasCallableGroup(ch) THEN "ok"
    ELSE IF \E k \in {"func", "args", "kwargs"} : GroupValue(j, ch, k) = Unset
         THEN "AttributeError"
    ELSE IF Raised(ResolveFunc(GroupValue(j, ch, "func")))
         THEN ResolveFunc(GroupValue(j, ch, "func")).exc
    ELSE IF \/ IsString(GroupValue(j, ch, "args"))
            \/ ~IsIterable(GroupValue(j, ch, "args"))
         THEN "TypeError"
    ELSE IF \/ IsString(GroupValue(j, ch, "kwargs"))
            \/ ~IsMapping(GroupValue(j, ch, "kwargs"))
         THEN "TypeError"
    ELSE "ok"

\* CallableError with the bug of taking a string for an iterable of
\* arguments (and a callable for one that takes them)
CallableError_StringArgs(j, ch) ==
    IF ~HasCallableGroup(ch) THEN "ok"
    ELSE IF \E k \in {"func", "args", "kwargs"} : GroupValue(j, ch, k) = Unset
         THEN "AttributeError"
    ELSE IF Raised(ResolveFunc(GroupValue(j, ch, "func")))
         THEN ResolveFunc(GroupValue(j, ch, "func")).exc
    ELSE IF IsString(GroupValue(j, ch, "args")) THEN "ok"
    ELSE IF ~IsIterable(GroupValue(j, ch, "args")) THEN "TypeError"
    ELSE IF \/ IsString(GroupValue(j, ch, "kwargs"))
            \/ ~IsMapping(GroupValue(j, ch, "kwargs"))
         THEN "TypeError"
    ELSE IF ~SignatureAccepts(ResolveFunc(GroupValue(j, ch, "func")).func,
                              GroupValue(j, ch, "args"),
                              GroupValue(j, ch, "kwargs"))
         THEN "ValueError"
    ELSE "ok"

\* lines 123-148: the exception the func/args/kwargs stage raises, or "ok"
CallableError(j, ch) ==
    IF ~HasCallableGroup(ch) THEN "ok"
    ELSE IF \E k \in {"func", "args", "kwargs"} : GroupValue(j, ch, k) = Unset
         THEN "AttributeError"
    ELSE IF Raised(ResolveFunc(GroupValue(j, ch, "func")))
         THEN ResolveFunc(GroupValue(j, ch, "func")).exc
    ELSE IF \/ IsString(GroupValue(j, ch, "args"))
            \/ ~IsIterable(GroupValue(j, ch, "args"))
         THEN "TypeError"
    ELSE IF \/ IsString(GroupValue(j, ch, "kwargs"))
            \/ ~IsMapping(GroupValue(j, ch, "kwargs"))
         THEN "TypeError"
    ELSE IF ~SignatureAccepts(ResolveFunc(GroupValue(j, ch, "func")).func,
                              GroupValue(j, ch, "args"),
                              GroupValue(j, ch, "kwargs"))
         THEN "ValueError"
    ELSE "ok"

\* lines 155-158
NameError(j, ch) ==
    IF ~Has(WithDefaultName(j, ch), "name") THEN "ok"
    ELSE IF \/ ~Truthy(WithDefaultName(j, ch)["name"])
            \/ ~IsString(WithDefaultName(j, ch)["name"])
         THEN "TypeError"
    ELSE "ok"

\* lines 161-164
MisfireGraceTimeError(j, ch) ==
    IF ~Has(ch, "misfire_grace_time") THEN "ok"
    ELSE IF /\ ch["misfire_grace_time"] # None
            /\ \/ ~IsInteger(ch["misfire_grace_time"])
               \/ IntValue(ch["misfire_grace_time"]) <= 0
         THEN "TypeError"
    ELSE "ok"

\* MaxInstancesError with the bug of letting zero through
MaxInstancesError_ZeroAllowed(j, ch) ==
    IF ~Has(ch, "max_instances") THEN "ok"
    ELSE IF \/ ~IsInteger(ch["max_instances"])
            \/ IntValue(ch["max_instances"]) < 0
         THEN "TypeError"
    ELSE "ok"

\* lines 171-174
MaxInstancesError(j, ch) ==
    IF ~Has(ch, "max_instances") THEN "ok"
    ELSE IF \/ ~IsInteger(ch["max_instances"])
            \/ IntValue(ch["max_instances"]) <= 0
         THEN "TypeError"
    ELSE "ok"

\* lines 177-180
TriggerError(j, ch) ==
    IF Has(ch, "trigger") /\ ch["trigger"].ty # "trigger" THEN "TypeError" ELSE "ok"

\* lines 184-187
ExecutorError(j, ch) ==
    IF Has(ch, "executor") /\ ~IsString(ch["executor"]) THEN "TypeError" ELSE "ok"

\* lines 190-192
NextRunTimeError(j, ch) ==
    IF Has(ch, "next_run_time") /\ Raised(convert_to_datetime(ch["next_run_time"]))
    THEN "TypeError" ELSE "ok"

\* RestError with the bug of ignoring the keys left in the change set
RestError_Ignored(j, ch) == "ok"

\* lines 194-195: keys are left in the change set
RestError(j, ch) ==
    IF DOMAIN ch \subseteq ModifiableKeys THEN "ok" ELSE "AttributeError"

\* The exception a stage raises on change set ch, or "ok".
StageError(j, ch, stage) ==
    CASE stage = "id" -> IdError(j, ch)
      [] stage = "func" -> CallableError(j, ch)
      [] stage = "name" -> NameError(j, ch)
      [] stage = "misfire_grace_time" -> MisfireGraceTimeError(j, ch)
      [] stage = "coalesce" -> "ok"
      [] stage = "max_instances" -> MaxInstancesError(j, ch)
      [] stage = "trigger" -> TriggerError(j, ch)
      [] stage = "executor" -> ExecutorError(j, ch)
      [] stage = "next_run_time" -> NextRunTimeError(j, ch)
      [] OTHER -> RestError(j, ch)

\* What a stage that does not raise adds to `approved`.
StageApproved(j, ch, stage) ==
    CASE stage = "func" ->
            IF ~HasCallableGroup(ch) THEN NoChanges
            ELSE [k \in {"func", "func_ref", "args", "kwargs"} |->
                    CASE k = "func" -> ResolveFunc(GroupValue(j, ch, "func")).func
                      [] k = "func_ref" -> ResolveFunc(GroupValue(j, ch, "func")).func_ref
                      [] OTHER -> GroupValue(j, ch, k)]
      [] stage = "name" ->
            IF ~Has(WithDefaultName(j, ch), "name") THEN NoChanges
            ELSE [k \in {"name"} |-> WithDefaultName(j, ch)["name"]]
      [] stage = "coalesce" ->
            IF ~Has(ch, stage) THEN NoChanges
            ELSE [k \in {stage} |-> PyBool(Truthy(ch[stage]))]
      [] stage = "next_run_time" ->
            IF ~Has(ch, stage) THEN NoChanges
            ELSE [k \in {stage} |-> convert_to_datetime(ch[stage])]
      [] stage = "rest" -> NoChanges
      [] OTHER ->
            IF ~Has(ch, stage) THEN NoChanges ELSE [k \in {stage} |-> ch[stage]]

\* The first stage that raises, 0 when none does.
FirstFailure(j, ch) ==
    IF \A i \in DOMAIN Stages : StageError(j, ch, Stages[i]) = "ok" THEN 0
    ELSE Min({i \in DOMAIN Stages : StageError(j, ch, Stages[i]) # "ok"})

\* `approved` after the first n stages
ApprovedUpTo(j, ch, n) ==
    [k \in UNION {DOMAIN StageApproved(j, ch, Stages[i]) : i \in 1 .. n} |->
        StageApproved(j, ch,
            Stages[CHOOSE i \in 1 .. n : k \in DOMAIN StageApproved(j, ch, Stages[i])])[k]]

\* JobAfterRaise with the bug of assigning each change as soon as it validated
JobAfterRaise_Partial(j, ch, n) == Commit(j, ApprovedUpTo(j, ch, n - 1))

\* The fields of the job after a _modify that raised in stage n: the commit
\* of lines 197-198 was not reached.
JobAfterRaise(j, ch, n) == j

\* _modify as a whole: the exception raised ("ok" when none) and the fields
\* of the job afterwards.
Modify(j, ch) ==
    LET n == FirstFailure(j, ch)
    IN IF n = 0
       THEN [exc |-> "ok", job |-> Commit(j, ApprovedUpTo(j, ch, Len(Stages)))]
       ELSE [exc |-> StageError(j, ch, Stages[n]), job |-> JobAfterRaise(j, ch, n)]

-----------------------------------------------------------------------------
(* Job.__getstate__ and Job.__setstate__. *)

\* The slots __getstate__ reads, with the snapshot key each is stored under.
SnapshotKeys == {"version", "id", "func", "trigger", "executor", "args",
                 "kwargs", "name", "misfire_grace_time", "coalesce",
                 "max_instances", "next_run_time"}

\* the version __getstate__ writes and the highest __setstate__ accepts
Version == 1

\* Snapshot with the bug of leaving next_run_time out
Snapshot_WithoutNextRunTime(j) ==
    [k \in SnapshotKeys \ {"next_run_time"} |->
        CASE k = "version" -> PyInt(Version)
          [] k = "func" -> j["func_ref"]
          [] OTHER -> j[k]]

\* lines 207-220: the snapshot of a job all slots of which are assigned
Snapshot(j) ==
    [k \in SnapshotKeys |->
        CASE k = "version" -> PyInt(Version)
          [] k = "func" -> j["func_ref"]
          [] OTHER -> j[k]]

\* NotSerializable with the bug of not testing the reference
NotSerializable_Never(j) == FALSE

\* line 202: if not self.func_ref
NotSerializable(j) == ~Truthy(j["func_ref"])

\* __getstate__: the exception raised ("ok" when none) and the snapshot
GetState(j) ==
    IF ~hasattr(j, "func_ref") THEN [exc |-> "AttributeError", state |-> NoChanges]
    ELSE IF NotSerializable(j) THEN [exc |-> "ValueError", state |-> NoChanges]
    ELSE IF \E k \in SnapshotKeys \ {"version", "func"} : ~hasattr(j, k)
         THEN [exc |-> "AttributeError", state |-> NoChanges]
    ELSE [exc |-> "ok", state |-> Snapshot(j)]

\* The assignments of __setstate__, in the order of lines 226-237.
SetOrder == <<"id", "func_ref", "func", "trigger", "executor", "args", "kwargs",
              "name", "misfire_grace_time", "coalesce", "max_instances",
              "next_run_time">>

\* state.get('version', 1)
VersionOf(st) == IF Has(st, "version") THEN IntValue(st["version"]) ELSE 1

\* The exception the i-th assignment raises on snapshot st, or "ok".
AssignError(st, i) ==
    CASE SetOrder[i] = "func_ref" -> IF Has(st, "func") THEN "ok" ELSE "KeyError"
      [] SetOrder[i] = "func" ->
            IF ~IsString(st["func"]) THEN "TypeError"
            ELSE IF Raised(ref_to_obj(st["func"].s)) THEN ref_to_obj(st["func"].s).exc
            ELSE "ok"
      [] OTHER -> IF Has(st, SetOrder[i]) THEN "ok" ELSE "KeyError"

\* The value the i-th assignment stores.
AssignValue(st, i) ==
    CASE SetOrder[i] = "func_ref" -> st["func"]
      [] SetOrder[i] = "func" -> ref_to_obj(st["func"].s)
      [] OTHER -> st[SetOrder[i]]

\* The first assignment that raises, Len(SetOrder) + 1 when none does.
FirstBadAssign(st) ==
    IF \A i \in DOMAIN SetOrder : AssignError(st, i) = "ok" THEN Len(SetOrder) + 1
    ELSE Min({i \in DOMAIN SetOrder :
                /\ AssignError(st, i) # "ok"
                /\ \A k \in 1 .. (i - 1) : AssignError(st, k) = "ok"})

\* The object after the assignments before the n-th.
AssignedBefore(obj, st, n) ==
    [k \in Slots |->
        IF \E i \in 1 .. (n - 1) : SetOrder[i] = k
        THEN AssignValue(st, CHOOSE i \in 1 .. (n - 1) : SetOrder[i] = k)
        ELSE obj[k]]

\* TooNew with the bug of accepting the version after the known one
TooNew_OffByOne(st) == VersionOf(st) > Version + 1

\* line 223: the snapshot is of a version this code cannot handle
TooNew(st) == VersionOf(st) > Version

\* __setstate__ as a whole: the exception raised ("ok" when none) and the
\* fields of the object afterwards.
SetState(obj, st) ==
    IF TooNew(st) THEN [exc |-> "ValueError", job |-> obj]
    ELSE IF FirstBadAssign(st) > Len(SetOrder)
         THEN [exc |-> "ok", job |-> AssignedBefore(obj, st, Len(SetOrder) + 1)]
    ELSE [exc |-> AssignError(st, FirstBadAssign(st)),
          job |-> AssignedBefore(obj, st, FirstBadAssign(st))]

-----------------------------------------------------------------------------
(* Job.__eq__ *)

NotImplemented == [ty |-> "NotImplemented"]

\* isinstance(o, Job)
IsJob(o) == DOMAIN o = Slots

\* Eq with the bug of comparing every field
Eq_AllFields(a, b) ==
    IF IsJob(b) THEN PyBool(a = b) ELSE NotImplemented

\* lines 239-242: a == b for a Job a
Eq(a, b) ==
    IF IsJob(b) THEN PyBool(a["id"] = b["id"]) ELSE NotImplemented

-----------------------------------------------------------------------------
(* Job._get_run_times(now), one iteration of the while loop at a time. *)

\* LoopCondition with the bug of not looking at the horizon
LoopCondition_NoHorizon(nrt, horizon) == Truthy(nrt)

\* LoopCondition with the bug of an exclusive horizon
LoopCondition_Exclusive(nrt, horizon) == Truthy(nrt) /\ nrt.t < horizon

\* line 104: while next_run_time and next_run_time <= now
LoopCondition(nrt, horizon) == Truthy(nrt) /\ nrt.t <= horizon

\* InitialRunTimes with the bug of a list that outlives the call
InitialRunTimes_Stale(old) == old

\* line 102: run_times = [] (old is the list the previous call returned)
InitialRunTimes(old) == <<>>

\* Appended with the bug of keeping the last due time alone when the job
\* coalesces
Appended_Coalesced(j, times, t) ==
    IF Truthy(j["coalesce"]) THEN <<t>> ELSE Append(times, t)

\* line 105: run_times.append(next_run_time), with j the fields of the job
Appended(j, times, t) == Append(times, t)

\* Advanced with the bug of not taking the value the trigger returned
Advanced_Kept(nrt, queried) == nrt

\* line 106: next_run_time = self.trigger.get_next_fire_time(...), with nrt
\* the value of the local variable before the assignment
Advanced(nrt, queried) == queried

\* JobAfterIteration with the bug of assigning self.next_run_time
JobAfterIteration_Store(j, nxt) == [j EXCEPT !["next_run_time"] = nxt]

\* line 103 and line 106 assign the local variable next_run_time only: the
\* fields of the job after an iteration that queried nxt
JobAfterIteration(j, nxt) == j

-----------------------------------------------------------------------------
(* The calls the scheduler makes: their arguments. *)

\* The values the scheduler passes for a key of a change set: for every
\* field a value the validation accepts and one it must refuse (coalesce
\* has none).  The trigger and coalesce passed are those of the creation,
\* the passed coalesce as an int.
ValuesFor(k) ==
    CASE k = "id" -> {PyStr("job1"), PyInt(7)}
      [] k = "func" -> {PyFunc("f"), PyFunc("lam"), PyStr("m:gone")}
      [] k = "args" -> {PyList(1), PyStr("x")}
      [] k = "kwargs" -> {PyDict({"k"}), PyStr("x"), PyList(1)}
      [] k = "name" -> {PyStr("n1"), PyStr("")}
      [] k = "misfire_grace_time" -> {None, PyInt(0)}
      [] k = "coalesce" -> {PyInt(1)}
      [] k = "max_instances" -> {PyInt(2), PyInt(-1)}
      [] k = "trigger" -> {PyTrigger("date"), PyStr("cron")}
      [] k = "executor" -> {PyStr(""), PyInt(5)}
      [] k = "next_run_time" -> {None, PyInt(0)}
      [] OTHER -> {PyInt(1)}

\* "max_runs" is no attribute of Job
ChangeKeys == ModifiableKeys \cup {"max_runs"}

\* d with key k set to v
With(d, k, v) == [x \in DOMAIN d \cup {k} |-> IF x = k THEN v ELSE d[x]]

\* The change sets of at most n keys.
RECURSIVE ChangeSetsOf(_)
ChangeSetsOf(n) ==
    IF n = 0 THEN {NoChanges}
    ELSE ChangeSetsOf(n - 1) \cup
         UNION {UNION {{With(ch, k, v) : v \in ValuesFor(k)} :
                       k \in ChangeKeys \ DOMAIN ch} :
                ch \in ChangeSetsOf(n - 1)}

ChangeSets == ChangeSetsOf(MaxChanges) \ {NoChanges}

\* The keyword arguments of Job(scheduler, id, ...) as the scheduler's
\* add_job passes them: every field but, possibly, the name.
CreateArgs ==
    UNION {{IF n = Unset THEN full ELSE With(full, "name", n) :
                n \in {Unset, None, PyStr("n1")}} :
           full \in [func : {PyStr("m:f"), PyFunc("lam")},
                     args : {PyList(0), PyList(1)},
                     kwargs : {PyDict({})},
                     trigger : {PyTrigger("date"), PyStr("cron")},
                     executor : {PyStr("default")},
                     misfire_grace_time : {PyInt(1)},
                     coalesce : {PyBool(TRUE)},
                     max_instances : {PyInt(1)},
                     next_run_time : {None, PyDatetime(0)}]}

\* The keyword arguments the jobs of the schedule runs are created with.
ScheduleCreateArgs ==
    {kw \in CreateArgs : /\ kw["func"] = PyStr("m:f")
                         /\ kw["args"] = PyList(1)
                         /\ ~Has(kw, "name")}

\* The changes of the schedule: any trigger, any next_run_time, either
\* value of coalesce.
ScheduleChanges ==
    {[k \in {"trigger"} |-> PyTrigger(t)] : t \in TriggerKinds} \cup
    {[k \in {"next_run_time"} |-> v] : v \in {None} \cup {PyDatetime(t) : t \in Time}} \cup
    {[k \in {"coalesce"} |-> PyBool(b)] : b \in BOOLEAN}

\* the id argument of Job(scheduler, id, ...)
CreateIds == {None, PyStr(""), PyStr("job1"), PyInt(0), PyInt(7)}

\* uuid4().hex
NewUuid == PyStr("uuid")

\* The values the scheduler passes for the fields with a domain of their
\* own: for misfire_grace_time and max_instances None, integers below, at
\* and above zero, a float, a string and the two bools (which are integers:
\* isinstance(True, int)); for executor strings, the empty one among them,
\* and values that are no strings.
FieldValues(k) ==
    CASE k = "misfire_grace_time" ->
            {None, PyInt(-1), PyInt(0), PyInt(3), PyFloat(2), PyStr("3"),
             PyBool(FALSE), PyBool(TRUE)}
      [] k = "max_instances" ->
            {None, PyInt(-1), PyInt(0), PyInt(2), PyFloat(2), PyStr("2"),
             PyBool(FALSE), PyBool(TRUE)}
      [] OTHER -> {PyStr("pool"), PyStr(""), None, PyInt(5)}

FieldKeys == {"misfire_grace_time", "max_instances", "executor"}

\* The change sets over the keys of FieldKeys.
FieldChanges ==
    UNION {{ch \in [K -> UNION {FieldValues(k) : k \in K}] :
                \A k \in K : ch[k] \in FieldValues(k)} :
           K \in SUBSET FieldKeys \ {{}}}

\* The keyword arguments of the jobs created with these values.
FieldCreateArgs ==
    [func : {PyStr("m:f")},
     args : {PyList(1)},
     kwargs : {PyDict({})},
     trigger : {PyTrigger("date")},
     executor : {PyStr("default"), PyStr(""), None},
     misfire_grace_time : FieldValues("misfire_grace_time"),
     coalesce : {PyBool(TRUE)},
     max_instances : FieldValues("max_instances"),
     next_run_time : {None}]

\* The keyword arguments of the jobs that are compared: those of the
\* schedule and one set that differs from them in every field.
EqCreateArgs ==
    ScheduleCreateArgs \cup
    {[func |-> PyFunc("lam"), args |-> PyList(0), kwargs |-> PyDict({}),
      trigger |-> PyTrigger("interval"), executor |-> PyStr("pool"),
      misfire_grace_time |-> None, coalesce |-> PyBool(FALSE),
      max_instances |-> PyInt(2), next_run_time |-> PyDatetime(1),
      name |-> PyStr("n1")]}

\* the change of the kwargs of the first of them
EqChanges == {[k \in {"kwargs"} |-> PyDict({"k"})]}

\* The change sets whose commit is followed one assignment at a time: of
\* one, two and three fields, of the callable (which approves func, func_ref,
\* args and kwargs), and one that is refused.
CommitChanges ==
    {[k \in {"name"} |-> PyStr("n1")],
     [k \in {"func"} |-> PyFunc("lam")],
     [trigger |-> PyTrigger("interval"), next_run_time |-> PyDatetime(2)],
     [executor |-> PyStr("pool"), max_instances |-> PyInt(2), coalesce |-> PyBool(FALSE)],
     [executor |-> PyInt(5), next_run_time |-> PyDatetime(1)]}

\* the aliases of the job stores of the scheduler
Aliases == {"default", "db"}

\* The change sets given to the jobs that are bound: of the store alias
\* itself, of fields that validate and of one that does not.
BindChanges ==
    {[k \in {"_jobstore_alias"} |-> v] : v \in {None, PyStr("db")}} \cup
    {[k \in {"name"} |-> PyStr("n1")],
     [k \in {"max_instances"} |-> PyInt(-1)],
     [k \in {"trigger"} |-> PyTrigger("interval")],
     [name |-> PyStr("n1"), _jobstore_alias |-> None]}

\* the ids of the jobs that are compared
EqIds == {None, PyStr("job1"), PyStr("job2")}

-----------------------------------------------------------------------------
(* The state machine. *)

NoEnumeration == [trigger |-> None, next_run_time |-> None, now |-> 0, run_times |-> <<>>]

Init ==
    /\ job = NoJob
    /\ pc = "idle"
    /\ op = "none"
    /\ changes = NoChanges
    /\ pre = NoJob
    /\ outcome = "none"
    /\ now = 0
    /\ next_run_time = None
    /\ run_times = <<>>
    /\ queries = 0
    /\ prev = NoEnumeration
    /\ state = NoChanges
    /\ tamper = "none"
    /\ loaded = NoJob
    /\ other = None
    /\ equal = None
    /\ approved = NoChanges
    /\ todo = {}
    /\ seen = NoJob

Created == job # NoJob

\* IdOrUuid with the bug of replacing a missing id only
IdOrUuid_OnlyNone(id) == IF id = None THEN NewUuid ELSE id

\* line 36: id or uuid4().hex
IdOrUuid(id) == IF Truthy(id) THEN id ELSE NewUuid

\* Job.__init__(scheduler, id, **kwargs); an exception leaves no object.
Create(id, kwargs) ==
    /\ pc = "idle"
    /\ ~Created
    /\ LET obj == [NoJob EXCEPT !["_jobstore_alias"] = None]
           ch == With(kwargs, "id", IdOrUuid(id))
           r == Modify(obj, ch)
       IN /\ job' = IF r.exc = "ok" THEN r.job ELSE NoJob
          /\ changes' = ch
          /\ pre' = obj
          /\ outcome' = r.exc
    /\ op' = "create"
    /\ pc' = "returned"
    /\ UNCHANGED <<now, next_run_time, run_times, queries, prev, state, tamper, loaded,
                   other, equal, approved, todo, seen>>

\* job._modify(**ch) on the created job
ModifyCall(ch) ==
    /\ pc = "idle"
    /\ Created
    /\ LET r == Modify(job, ch)
       IN /\ job' = r.job
          /\ outcome' = r.exc
    /\ changes' = ch
    /\ pre' = job
    /\ op' = "modify"
    /\ pc' = "returned"
    /\ UNCHANGED <<now, next_run_time, run_times, queries, prev, state, tamper, loaded,
                   other, equal, approved, todo, seen>>

\* job._get_run_times(n): lines 102-103
GetRunTimesCall(n) ==
    /\ pc = "idle"
    /\ Created
    /\ op' = "get_run_times"
    /\ pre' = job
    /\ now' = n
    /\ run_times' = InitialRunTimes(prev.run_times)
    /\ next_run_time' = job["next_run_time"]
    /\ queries' = 0
    /\ pc' = "loop"
    /\ UNCHANGED <<job, changes, outcome, prev, state, tamper, loaded,
                   other, equal, approved, todo, seen>>

\* lines 104-106: one iteration of the loop
GetRunTimesIterate ==
    /\ pc = "loop"
    /\ LoopCondition(next_run_time, now)
    /\ Len(run_times) < MaxRuns
    /\ run_times' = Appended(job, run_times, next_run_time.t)
    /\ LET nxt == get_next_fire_time(job["trigger"].kind, next_run_time.t, now)
       IN /\ next_run_time' = Advanced(next_run_time, nxt)
          /\ job' = JobAfterIteration(job, nxt)
    /\ queries' = queries + 1
    /\ UNCHANGED <<pc, op, changes, pre, outcome, now, prev, state, tamper, loaded,
                   other, equal, approved, todo, seen>>

\* line 108: the loop condition fails and run_times is returned
GetRunTimesReturn ==
    /\ pc = "loop"
    /\ ~LoopCondition(next_run_time, now)
    /\ outcome' = "ok"
    /\ pc' = "returned"
    /\ UNCHANGED <<job, op, changes, pre, now, next_run_time, run_times, queries,
                   prev, state, tamper, loaded,
                   other, equal, approved, todo, seen>>

\* job.__getstate__() (the job store pickles the job)
Export ==
    /\ pc = "idle"
    /\ Created
    /\ outcome' = GetState(job).exc
    /\ state' = GetState(job).state
    /\ op' = "getstate"
    /\ pre' = job
    /\ pc' = "returned"
    /\ UNCHANGED <<job, changes, now, next_run_time, run_times, queries, prev,
                   tamper, loaded,
                   other, equal, approved, todo, seen>>

\* What the store hands back for a snapshot st: the snapshot, one of a newer
\* or of no stated version, one whose callable is gone from the registry, or
\* a stub of a newer format.
Tampered(st, how) ==
    CASE how = "newer" -> With(st, "version", PyInt(Version + 1))
      [] how = "unversioned" -> [k \in DOMAIN st \ {"version"} |-> st[k]]
      [] how = "gone" -> With(st, "func", PyStr("m:gone"))
      [] how = "stub" -> [k \in {"version"} |-> PyInt(Version + 1)]
      [] OTHER -> st

Tamperings == {"none", "newer", "unversioned", "gone", "stub"}

\* obj.__setstate__(st) on a new object (the job store unpickles a job)
Import(how) ==
    /\ pc = "returned"
    /\ op = "getstate"
    /\ outcome = "ok"
    /\ LET r == SetState(NoJob, Tampered(state, how))
       IN /\ loaded' = r.job
          /\ outcome' = r.exc
    /\ tamper' = how
    /\ op' = "setstate"
    /\ UNCHANGED <<job, pc, changes, pre, now, next_run_time, run_times, queries,
                   prev, state,
                   other, equal, approved, todo, seen>>

\* The caller goes on after a call returned or raised.
Return ==
    /\ pc = "returned"
    /\ pc' = "idle"
    /\ op' = "none"
    /\ changes' = NoChanges
    /\ pre' = NoJob
    /\ outcome' = "none"
    /\ now' = 0
    /\ next_run_time' = None
    /\ run_times' = <<>>
    /\ queries' = 0
    /\ prev' = IF op = "get_run_times"
               THEN [trigger |-> pre["trigger"], next_run_time |-> pre["next_run_time"],
                     now |-> now, run_times |-> run_times]
               ELSE prev
    /\ state' = NoChanges
    /\ tamper' = "none"
    /\ loaded' = NoJob
    /\ equal' = None
    /\ approved' = NoChanges
    /\ todo' = {}
    /\ seen' = NoJob
    /\ UNCHANGED <<job, other>>

\* SetAttr with the bug of leaving next_run_time out of the commit
SetAttr_NotTheRunTime(j, key, value) ==
    IF key = "next_run_time" THEN j ELSE [j EXCEPT ![key] = value]

\* line 198: setattr(self, key, value)
SetAttr(j, key, value) == [j EXCEPT ![key] = value]

\* job._modify(**ch) up to line 195: the validation, which raises or leaves
\* `approved` to the commit loop
ModifyBegin(ch) ==
    /\ pc = "idle"
    /\ Created
    /\ changes' = ch
    /\ pre' = job
    /\ op' = "modify"
    /\ IF FirstFailure(job, ch) = 0
       THEN /\ approved' = ApprovedUpTo(job, ch, Len(Stages))
            /\ todo' = DOMAIN ApprovedUpTo(job, ch, Len(Stages))
            /\ pc' = "commit"
            /\ UNCHANGED outcome
       ELSE /\ outcome' = StageError(job, ch, Stages[FirstFailure(job, ch)])
            /\ pc' = "returned"
            /\ UNCHANGED <<approved, todo>>
    /\ UNCHANGED <<job, now, next_run_time, run_times, queries, prev, state,
                   tamper, loaded, other, equal, seen>>

\* lines 197-198: one iteration of the commit loop (the order of the items
\* of a dict is that of the Python version)
CommitStep(key) ==
    /\ pc = "commit"
    /\ key \in todo
    /\ job' = SetAttr(job, key, approved[key])
    /\ todo' = todo \ {key}
    /\ UNCHANGED <<pc, op, changes, pre, outcome, now, next_run_time, run_times,
                   queries, prev, state, tamper, loaded, other, equal, approved,
                   seen>>

\* the commit loop is through and _modify returns
CommitReturn ==
    /\ pc = "commit"
    /\ todo = {}
    /\ outcome' = "ok"
    /\ pc' = "returned"
    /\ UNCHANGED <<job, op, changes, pre, now, next_run_time, run_times, queries,
                   prev, state, tamper, loaded, other, equal, approved, todo,
                   seen>>

\* Another thread reads the fields of the job: Job has no lock, so that it
\* can do so between any two steps of the owner.
Read ==
    /\ Created
    /\ seen' = job
    /\ UNCHANGED <<job, pc, op, changes, pre, outcome, now, next_run_time,
                   run_times, queries, prev, state, tamper, loaded, other, equal,
                   approved, todo>>

\* A job store of the scheduler accepts the job: the scheduler assigns its
\* alias to job._jobstore_alias.
Bind(alias) ==
    /\ pc = "idle"
    /\ Created
    /\ pending(job)
    /\ pre' = job
    /\ job' = [job EXCEPT !["_jobstore_alias"] = PyStr(alias)]
    /\ op' = "bind"
    /\ outcome' = "ok"
    /\ pc' = "returned"
    /\ UNCHANGED <<changes, now, next_run_time, run_times, queries, prev, state,
                   tamper, loaded, other, equal, approved, todo, seen>>

\* job._modify(**ch) as the scheduler calls it for the operation name
ModifyFor(name, ch) ==
    /\ pc = "idle"
    /\ Created
    /\ LET r == Modify(job, ch)
       IN /\ job' = r.job
          /\ outcome' = r.exc
    /\ changes' = ch
    /\ pre' = job
    /\ op' = name
    /\ pc' = "returned"
    /\ UNCHANGED <<now, next_run_time, run_times, queries, prev, state, tamper,
                   loaded, other, equal, approved, todo, seen>>

\* job.pause(): the scheduler's pause_job sets next_run_time to None
Pause == ModifyFor("pause", [k \in {"next_run_time"} |-> None])

\* job.resume(): the scheduler's resume_job sets next_run_time to t, the
\* next fire time of the trigger
Resume(t) == ModifyFor("resume", [k \in {"next_run_time"} |-> PyDatetime(t)])

\* other = Job(scheduler, id, **kwargs), a second job
CreateOther(id, kwargs) ==
    /\ pc = "idle"
    /\ Created
    /\ LET obj == [NoJob EXCEPT !["_jobstore_alias"] = None]
           r == Modify(obj, With(kwargs, "id", IdOrUuid(id)))
       IN other' = IF r.exc = "ok" THEN r.job ELSE other
    /\ UNCHANGED <<job, pc, op, changes, pre, outcome, now, next_run_time,
                   run_times, queries, prev, state, tamper, loaded, equal,
                   approved, todo, seen>>

\* other is the id of the job, a string
OtherIsAString ==
    /\ pc = "idle"
    /\ Created
    /\ other' = job["id"]
    /\ UNCHANGED <<job, pc, op, changes, pre, outcome, now, next_run_time,
                   run_times, queries, prev, state, tamper, loaded, equal,
                   approved, todo, seen>>

\* job == other
Compare ==
    /\ pc = "idle"
    /\ Created
    /\ equal' = Eq(job, other)
    /\ op' = "eq"
    /\ pc' = "returned"
    /\ UNCHANGED <<job, changes, pre, outcome, now, next_run_time, run_times,
                   queries, prev, state, tamper, loaded, other, approved, todo,
                   seen>>

\* The mutation and snapshot protocol.
Next ==
    \/ \E id \in CreateIds, kwargs \in CreateArgs : Create(id, kwargs)
    \/ \E ch \in ChangeSets : ModifyCall(ch)
    \/ Export
    \/ \E how \in Tamperings : Import(how)
    \/ Return

Spec == Init /\ [][Next]_vars

\* The schedule: the job's trigger and next_run_time are set to every value
\* and its run times enumerated.
NextEnum ==
    \/ \E id \in CreateIds, kwargs \in ScheduleCreateArgs : Create(id, kwargs)
    \/ \E ch \in ScheduleChanges : ModifyCall(ch)
    \/ \E n \in Time : GetRunTimesCall(n)
    \/ GetRunTimesIterate
    \/ GetRunTimesReturn
    \/ Return

SpecEnum == Init /\ [][NextEnum]_vars

\* The schedule with the thread inside _get_run_times going on: the loop is
\* sequential code that takes its next step, or returns, when it can.
SpecEnumFair ==
    /\ SpecEnum
    /\ WF_vars(GetRunTimesIterate)
    /\ WF_vars(GetRunTimesReturn)

\* The domains of the fields: jobs are created and modified with every value
\* of FieldValues.
NextFields ==
    \/ \E id \in CreateIds, kwargs \in FieldCreateArgs : Create(id, kwargs)
    \/ \E ch \in FieldChanges : ModifyCall(ch)
    \/ Return

SpecFields == Init /\ [][NextFields]_vars

\* The comparison of two jobs.
NextEq ==
    \/ \E id \in EqIds, kwargs \in EqCreateArgs : Create(id, kwargs)
    \/ \E id \in EqIds, kwargs \in EqCreateArgs : CreateOther(id, kwargs)
    \/ OtherIsAString
    \/ \E ch \in EqChanges : ModifyCall(ch)
    \/ Compare
    \/ Return

SpecEq == Init /\ [][NextEq]_vars

\* The binding of the job to a store, and its mutations, pauses and
\* resumptions before and after.
NextBind ==
    \/ \E id \in CreateIds, kwargs \in ScheduleCreateArgs : Create(id, kwargs)
    \/ \E alias \in Aliases : Bind(alias)
    \/ \E ch \in BindChanges : ModifyCall(ch)
    \/ Pause
    \/ \E t \in Time : Resume(t)
    \/ Return

SpecBind == Init /\ [][NextBind]_vars

\* The commit of _modify, one assignment at a time, and a reader.
NextCommit ==
    \/ \E id \in CreateIds, kwargs \in ScheduleCreateArgs : Create(id, kwargs)
    \/ \E ch \in CommitChanges : ModifyBegin(ch)
    \/ \E key \in Slots : CommitStep(key)
    \/ CommitReturn
    \/ Read
    \/ Return

SpecCommit == Init /\ [][NextCommit]_vars

-----------------------------------------------------------------------------
(* The properties. *)

\* a _modify call on the created job has returned or raised
ModifyDone == op = "modify" /\ pc = "returned"

\* The value of field k after a commit of change set ch.
Committed(ch, k) ==
    CASE k = "coalesce" -> job[k].ty = "bool" /\ job[k].b = Truthy(ch[k])
      [] k = "func" ->
            IF ch[k].ty = "str" THEN job["func_ref"] = ch[k] ELSE job[k] = ch[k]
      [] OTHER -> job[k] = ch[k]

\* C1: a _modify call commits every change of its batch or none: when it
\* raises, for whatever reason, every field of the job has the value it had
\* before the call, and when it does not, every change of the batch is in
\* the job.
C1_AllOrNothing ==
    ModifyDone =>
        /\ outcome # "ok" => job = pre
        /\ outcome = "ok" => \A k \in DOMAIN changes : Committed(changes, k)

\* A batch whose name change validated before its max_instances was refused.
C1_Witness ==
    /\ ModifyDone
    /\ outcome = "TypeError"
    /\ DOMAIN changes = {"name", "max_instances"}
    /\ changes["name"] = PyStr("n1")
    /\ pre["name"] # PyStr("n1")

\* C2: once the job is created, every _modify whose change set holds `id`
\* raises, whatever the value, and no step changes the id of the job.
C2_IdImmutable ==
    [][/\ Created => job'["id"] = job["id"]
       /\ (op' = "modify" /\ Has(changes', "id")) => outcome' # "ok"]_vars

\* A _modify that was given the id the job already has, and raised.
C2_Witness ==
    /\ ModifyDone
    /\ Has(changes, "id")
    /\ changes["id"] = pre["id"]
    /\ outcome = "ValueError"
    /\ job["id"] = PyStr("job1")

\* C3: a change set with a key that is no attribute of Job is rejected as a
\* whole: _modify raises and none of its other changes is applied.
C3_UnknownKeyRejectsBatch ==
    (ModifyDone /\ ~(DOMAIN changes \subseteq ModifiableKeys)) =>
        outcome # "ok" /\ job = pre

\* An unknown key beside an executor change that validates.
C3_Witness ==
    /\ ModifyDone
    /\ DOMAIN changes = {"executor", "max_runs"}
    /\ changes["executor"] = PyStr("")
    /\ pre["executor"] = PyStr("default")
    /\ outcome = "AttributeError"

\* a _get_run_times call has returned
EnumerationDone == op = "get_run_times" /\ pc = "returned"

\* The job had the "dates" trigger and next_run_time t when the call started.
DatesFrom(t) ==
    pre["trigger"] = PyTrigger("dates") /\ pre["next_run_time"] = PyDatetime(t)

\* C4 as stated: when _get_run_times has returned, the next_run_time of the
\* job is the first value that is not yet due (the first trigger value after
\* now, or None).
C4_Original ==
    EnumerationDone => job["next_run_time"] = next_run_time

\* C4 amended: _get_run_times leaves the next_run_time of the job where it
\* was; the local variable is what ends at the first value not yet due (None,
\* or after now).  With next_run_time at tick 0 (10:00) and fire times 1, 2, 4
\* (10:05, 10:10, 10:20): now = 3 (10:12) returns 0, 1, 2 with the local
\* variable at 4; now = 5 (10:21) returns 0, 1, 2, 4 again; and it returns 4
\* alone once the caller has set next_run_time to 4.
C4_Amended ==
    EnumerationDone =>
        /\ job["next_run_time"] = pre["next_run_time"]
        /\ next_run_time = None \/ next_run_time.t > now
        /\ (DatesFrom(0) /\ now = 3) =>
                run_times = <<0, 1, 2>> /\ next_run_time = PyDatetime(4)
        /\ (DatesFrom(0) /\ now = 5) =>
                run_times = <<0, 1, 2, 4>> /\ next_run_time = None
        /\ (DatesFrom(4) /\ now = 5) =>
                run_times = <<4>> /\ next_run_time = None

\* The enumeration with now = 5 that follows the one with now = 3, the
\* next_run_time of the job still at 0.
C4_Witness ==
    /\ EnumerationDone
    /\ DatesFrom(0)
    /\ now = 5
    /\ prev = [trigger |-> PyTrigger("dates"), next_run_time |-> PyDatetime(0),
               now |-> 3, run_times |-> <<0, 1, 2>>]
    /\ run_times = <<0, 1, 2, 4>>

\* C5: with a strictly monotonic trigger, every time _get_run_times has
\* collected is <= now and the times are strictly increasing.
C5_DueAndIncreasing ==
    (op = "get_run_times" /\ StrictlyMonotonic(job["trigger"].kind)) =>
        /\ \A i \in DOMAIN run_times : run_times[i] <= now
        /\ \A i, k \in DOMAIN run_times : i < k => run_times[i] < run_times[k]

\* The interval trigger returned three times.
C5_Witness ==
    /\ EnumerationDone
    /\ job["trigger"] = PyTrigger("interval")
    /\ Len(run_times) = 3

\* C6: _get_run_times has no side effect: at every point of a call every
\* field of the job, next_run_time included, has the value it had when the
\* call started.
C6_EnumerationIsPure ==
    op = "get_run_times" => job = pre

\* A call that went through the loop twice and queried the trigger.
C6_Witness ==
    /\ EnumerationDone
    /\ queries = 2
    /\ next_run_time # job["next_run_time"]

\* C7: two _get_run_times calls with the same trigger, next_run_time and now
\* return the same list.
C7_SameInputsSameTimes ==
    (/\ EnumerationDone
     /\ prev.trigger = pre["trigger"]
     /\ prev.next_run_time = pre["next_run_time"]
     /\ prev.now = now) =>
        run_times = prev.run_times

\* The second of two such calls, which returned two times.
C7_Witness ==
    /\ EnumerationDone
    /\ prev = [trigger |-> pre["trigger"], next_run_time |-> pre["next_run_time"],
               now |-> now, run_times |-> run_times]
    /\ Len(run_times) = 2

\* a __setstate__ call on a new object has returned or raised
ImportDone == op = "setstate" /\ pc = "returned"

\* The fields the snapshot has to bring back as they were.
RoundTripFields == {"id", "executor", "args", "kwargs", "name",
                    "misfire_grace_time", "coalesce", "max_instances",
                    "next_run_time"}

\* C8: __setstate__ of the snapshot __getstate__ made of a job with a
\* textual reference gives an object whose id, executor, args, kwargs, name,
\* misfire_grace_time, coalesce, max_instances and next_run_time are those
\* of the job and whose callable is the one the reference resolves to.
C8_RoundTrip ==
    (ImportDone /\ tamper = "none") =>
        /\ outcome = "ok"
        /\ \A k \in RoundTripFields : loaded[k] = job[k]
        /\ loaded["func"] = ref_to_obj(job["func_ref"].s)

\* The round trip of a job whose fields were modified after its creation.
C8_Witness ==
    /\ ImportDone
    /\ tamper = "none"
    /\ outcome = "ok"
    /\ loaded["kwargs"] = PyDict({"k"})
    /\ loaded["misfire_grace_time"] = None
    /\ loaded["max_instances"] = PyInt(2)
    /\ loaded["next_run_time"] = PyDatetime(0)
    /\ loaded["func"] = PyFunc("f")

\* C9: __setstate__ of a snapshot whose version is greater than 1 raises,
\* whatever the rest of the snapshot, and assigns no field of the object.
C9_NewerVersionRejected ==
    (ImportDone /\ VersionOf(Tampered(state, tamper)) > 1) =>
        outcome = "ValueError" /\ loaded = NoJob

\* A snapshot that is a valid version 1 layout but for its version 2.
C9_Witness ==
    /\ ImportDone
    /\ tamper = "newer"
    /\ Tampered(state, tamper)["version"] = PyInt(2)
    /\ DOMAIN Tampered(state, tamper) = SnapshotKeys
    /\ outcome = "ValueError"

\* C10: a _modify that only sets func to a callable without a textual
\* reference, which takes the current args and kwargs, commits (func_ref is
\* None afterwards); whenever the job has no textual reference __getstate__
\* raises and returns no snapshot; and every snapshot it returns holds the
\* textual reference of the job.
C10_UnreferencedCallable ==
    /\ (/\ ModifyDone
        /\ changes = [k \in {"func"} |-> PyFunc("lam")]
        /\ pre["kwargs"] = PyDict({})) =>
            /\ outcome = "ok"
            /\ job["func"] = PyFunc("lam")
            /\ job["func_ref"] = None
    /\ (op = "getstate" /\ ~IsString(job["func_ref"])) =>
            outcome = "ValueError" /\ state = NoChanges
    /\ (op = "getstate" /\ outcome = "ok") =>
            state["func"] = job["func_ref"] /\ IsString(state["func"])

\* __getstate__ raised on a job that was created with f (it has f's name)
\* and whose func was later set to the lambda.
C10_Witness ==
    /\ op = "getstate"
    /\ pc = "returned"
    /\ outcome = "ValueError"
    /\ job["func"] = PyFunc("lam")
    /\ job["func_ref"] = None
    /\ job["name"] = PyStr("f")

\* C11: whenever a change set holds one of func, args and kwargs, the three
\* (those missing taken from the job) are validated together, the signature
\* check included, before anything is committed: the args and kwargs of the
\* job are at all times a non-string iterable and a mapping that the
\* signature of the job's callable accepts, and a change of func alone to a
\* callable that does not take the current args is refused.
C11_CallableGroupConsistent ==
    /\ Created =>
            /\ job["func"].ty = "function"
            /\ ~IsString(job["args"]) /\ IsIterable(job["args"])
            /\ IsMapping(job["kwargs"])
            /\ SignatureAccepts(job["func"], job["args"], job["kwargs"])
    /\ (ModifyDone /\ HasCallableGroup(changes) /\ outcome = "ok") =>
            \A k \in {"args", "kwargs"} :
                job[k] = IF Has(changes, k) THEN changes[k] ELSE pre[k]
    /\ (/\ ModifyDone
        /\ DOMAIN changes = {"func"}
        /\ changes["func"].ty = "function"
        /\ ~SignatureAccepts(changes["func"], pre["args"], pre["kwargs"])) =>
            outcome = "ValueError" /\ job = pre

\* The job of the lambda, without arguments, was refused the function f(x,
\* k=None) as its callable.
C11_Witness ==
    /\ ModifyDone
    /\ changes = [k \in {"func"} |-> PyFunc("f")]
    /\ pre["func"] = PyFunc("lam")
    /\ pre["args"] = PyList(0)
    /\ outcome = "ValueError"

\* C12: a _modify whose change set gives args as a string, or kwargs as a
\* string or as anything else that is no mapping, raises and changes no
\* field, whatever the callable of the job and the rest of the change set.
C12_StringArgsRefused ==
    (/\ ModifyDone
     /\ \/ Has(changes, "args") /\ IsString(changes["args"])
        \/ Has(changes, "kwargs") /\ ~IsMapping(changes["kwargs"])) =>
        outcome # "ok" /\ job = pre

\* args as a string beside a func that takes one argument, on the job of the
\* lambda.
C12_Witness ==
    /\ ModifyDone
    /\ DOMAIN changes = {"func", "args"}
    /\ changes["func"] = PyFunc("f")
    /\ changes["args"] = PyStr("x")
    /\ pre["func"] = PyFunc("lam")
    /\ outcome = "TypeError"

\* Job(...) has returned a job
CreateDone == op = "create" /\ pc = "returned" /\ outcome = "ok"

\* C13: a job created without a name (or with None for it) has the name
\* derived from its callable; a _modify that supplies no name leaves the name
\* of the job as it was, also when it changes func; and one that supplies a
\* name and is accepted sets it.
C13_NamePolicy ==
    /\ (CreateDone /\ (~Has(changes, "name") \/ changes["name"] = None)) =>
            job["name"] = get_callable_name(job["func"])
    /\ (CreateDone /\ Has(changes, "name") /\ changes["name"] # None) =>
            job["name"] = changes["name"]
    /\ (ModifyDone /\ ~Has(changes, "name")) => job["name"] = pre["name"]
    /\ (ModifyDone /\ Has(changes, "name") /\ outcome = "ok") =>
            job["name"] = changes["name"]

\* The job named n1 at its creation with f keeps the name when its func
\* becomes the lambda.
C13_Witness ==
    /\ ModifyDone
    /\ changes = [k \in {"func"} |-> PyFunc("lam")]
    /\ pre["func"] = PyFunc("f")
    /\ outcome = "ok"
    /\ job["func"] = PyFunc("lam")
    /\ job["name"] = PyStr("n1")

\* v is a positive integer (True is the integer 1)
PositiveInteger(v) == IsInteger(v) /\ IntValue(v) > 0

\* C14: the misfire_grace_time of a job is None or a positive integer and
\* its max_instances a positive integer, whatever the creation and the
\* _modify calls were given: a change set (of a creation as of a _modify)
\* that gives misfire_grace_time zero, a negative or a non-integer value, or
\* max_instances None, zero, a negative or a non-integer value, is refused.
C14_FieldDomains ==
    /\ Created =>
            /\ job["misfire_grace_time"] = None
                    \/ PositiveInteger(job["misfire_grace_time"])
            /\ PositiveInteger(job["max_instances"])
    /\ (/\ pc = "returned"
        /\ op \in {"create", "modify"}
        /\ \/ /\ Has(changes, "misfire_grace_time")
              /\ changes["misfire_grace_time"] # None
              /\ ~PositiveInteger(changes["misfire_grace_time"])
           \/ /\ Has(changes, "max_instances")
              /\ ~PositiveInteger(changes["max_instances"])) =>
            outcome # "ok" /\ job = (IF op = "create" THEN NoJob ELSE pre)

\* A job with misfire_grace_time 3 was refused a change to None together
\* with max_instances 0.
C14_Witness ==
    /\ ModifyDone
    /\ DOMAIN changes = {"misfire_grace_time", "max_instances"}
    /\ changes["misfire_grace_time"] = None
    /\ changes["max_instances"] = PyInt(0)
    /\ outcome = "TypeError"
    /\ job["misfire_grace_time"] = PyInt(3)
    /\ job["max_instances"] = PyBool(TRUE)

\* C15: the executor of a job is a non-empty string whatever the creation
\* and the _modify calls were given: a change set that gives executor the
\* empty string, or a value that is no string, is refused.
C15_ExecutorNonEmpty ==
    /\ Created => IsString(job["executor"]) /\ job["executor"] # PyStr("")
    /\ (/\ ModifyDone
        /\ Has(changes, "executor")
        /\ (~IsString(changes["executor"]) \/ changes["executor"] = PyStr(""))) =>
            outcome # "ok" /\ job = pre

\* C16: every job that Job(...) returned has an id that is a non-empty
\* string, whether no id, an empty one or a string was passed: an id that is
\* missing or empty is replaced by a new uuid before _modify validates it,
\* and a non-empty id that is no string makes the creation fail.
C16_IdNonEmptyString ==
    /\ Created => IsString(job["id"]) /\ job["id"] # PyStr("")
    /\ (op = "create" /\ pc = "returned") =>
            /\ Truthy(changes["id"])
            /\ outcome = "ok" => job["id"] = changes["id"]
            /\ ~IsString(changes["id"]) => outcome = "TypeError" /\ ~Created

\* A creation that was given the uuid: its id argument was None or empty.
C16_Witness ==
    /\ CreateDone
    /\ changes["id"] = NewUuid
    /\ job["id"] = NewUuid

\* job == other has returned
CompareDone == op = "eq" /\ pc = "returned"

\* the slots that hold the fields of a job other than its id
OtherFields == Slots \ {"id", "_jobstore_alias"}

\* C17: job == other depends on the ids alone: two jobs with the same id are
\* equal, also when they differ in every other field, and two jobs with
\* different ids are not, also when all their other fields are the same.
C17_EqualityById ==
    (CompareDone /\ IsJob(other)) =>
        /\ job["id"] = other["id"] => equal = PyBool(TRUE)
        /\ job["id"] # other["id"] => equal = PyBool(FALSE)

\* Two jobs with the same id that differ in every other field were found
\* equal.
C17_Witness ==
    /\ CompareDone
    /\ IsJob(other)
    /\ job["id"] = other["id"]
    /\ \A k \in OtherFields : job[k] # other[k]
    /\ equal = PyBool(TRUE)

\* Two jobs that differ in their ids alone were found unequal.
C17_WitnessDistinct ==
    /\ CompareDone
    /\ IsJob(other)
    /\ job["id"] # other["id"]
    /\ \A k \in OtherFields : job[k] = other[k]
    /\ equal = PyBool(FALSE)

\* The chain v, get_next_fire_time(v, horizon), ... of at most n elements,
\* cut at the first element that is None or after the horizon.
RECURSIVE Chain(_, _, _, _)
Chain(kind, v, horizon, n) ==
    IF n = 0 \/ v = None THEN <<>>
    ELSE IF v.t > horizon THEN <<>>
    ELSE <<v.t>> \o Chain(kind, get_next_fire_time(kind, v.t, horizon), horizon, n - 1)

\* C18: _get_run_times(now) returns the chain next_run_time,
\* get_next_fire_time(next_run_time, now), ... cut at the first element that
\* is None or after now: nothing when next_run_time is None (the job is
\* paused) or after now, next_run_time first when it is <= now (now itself
\* included), and every due time also when the job coalesces.
C18_ReturnsTheChain ==
    EnumerationDone =>
        /\ run_times = Chain(pre["trigger"].kind, pre["next_run_time"], now, MaxRuns)
        /\ pre["next_run_time"] = None => run_times = <<>>
        /\ (pre["next_run_time"] # None /\ pre["next_run_time"].t > now) =>
                run_times = <<>>
        /\ (pre["next_run_time"] # None /\ pre["next_run_time"].t <= now) =>
                /\ Len(run_times) >= 1
                /\ run_times[1] = pre["next_run_time"].t
        /\ (DatesFrom(1) /\ now = 4) => run_times = <<1, 2, 4>>

\* A job that coalesces, whose next_run_time and two later fire times were
\* due, the last of them at now.
C18_Witness ==
    /\ EnumerationDone
    /\ job["coalesce"] = PyBool(TRUE)
    /\ DatesFrom(1)
    /\ now = 4
    /\ run_times = <<1, 2, 4>>

\* A paused job.
C18_WitnessPaused ==
    /\ EnumerationDone
    /\ job["coalesce"] = PyBool(FALSE)
    /\ pre["next_run_time"] = None
    /\ pre["trigger"] = PyTrigger("interval")
    /\ now = 4
    /\ run_times = <<>>

\* C19 as stated: whatever a reader sees of the job, also between two steps
\* of the commit of an accepted batch, is the job with none or with all of
\* the approved changes of the batch.
C19_Original ==
    (op = "modify" /\ seen # NoJob) =>
        seen = pre \/ seen = Commit(pre, approved)

\* C19 amended: the commit is atomic to the caller of _modify, not to a
\* reader that is not serialized with it.  When _modify has returned every
\* approved change is in the job, and when it has raised none is; while the
\* commit loop runs, the fields it has assigned have their approved values
\* and the others those from before the call, and that is what a reader
\* between two of its assignments sees.
C19_Amended ==
    /\ ModifyDone =>
            /\ todo = {}
            /\ outcome = "ok" => job = Commit(pre, approved)
            /\ outcome # "ok" => job = pre /\ approved = NoChanges
    /\ pc = "commit" =>
            \A k \in Slots :
                job[k] = IF k \in DOMAIN approved \ todo THEN approved[k] ELSE pre[k]
    /\ (op = "modify" /\ seen # NoJob) =>
            \A k \in Slots : seen[k] = pre[k] \/ seen[k] = Commit(pre, approved)[k]

\* _modify has returned from the commit of a trigger and a next_run_time,
\* between whose assignments a reader saw the job with one of them alone.
C19_Witness ==
    /\ ModifyDone
    /\ outcome = "ok"
    /\ DOMAIN changes = {"trigger", "next_run_time"}
    /\ job = Commit(pre, approved)
    /\ seen # pre
    /\ seen # job
    /\ seen # NoJob

\* C20: a __setstate__ that fails, for a version that is too new as for a
\* textual reference that does not resolve, raises and has assigned no field
\* of the object it was called on.
C20_FailedImportAssignsNothing ==
    (ImportDone /\ tamper \in {"newer", "stub", "gone"}) =>
        outcome # "ok" /\ loaded = NoJob

\* the call of _get_run_times is inside its loop, the trigger of the job
\* one that never returns a value <= the one it was queried from
InMonotonicLoop ==
    pc = "loop" /\ StrictlyMonotonic(job["trigger"].kind)

\* C21: with a strictly monotonic trigger _get_run_times returns, for every
\* now: the loop is left as soon as the value the trigger returned is None
\* or after now, it has then queried the trigger once for every time it
\* returns, and what it holds in between is not yet due or greater than all
\* it collected, so that the times of the model (0 .. MaxTime) bound the
\* number of its iterations (below MaxRuns).
C21_EnumerationTerminates ==
    /\ [](InMonotonicLoop =>
            /\ queries = Len(run_times)
            /\ Len(run_times) <= now + 1
            /\ Len(run_times) < MaxRuns
            /\ (run_times # <<>> /\ next_run_time # None) =>
                    next_run_time.t > run_times[Len(run_times)])
    /\ []((EnumerationDone /\ StrictlyMonotonic(job["trigger"].kind)) =>
            /\ queries = Len(run_times)
            /\ next_run_time = None \/ next_run_time.t > now)
    /\ (InMonotonicLoop ~> EnumerationDone)

\* The call with now = 5 on the job of the dates trigger has returned after
\* four queries, the last of which returned None.
C21_Witness ==
    /\ EnumerationDone
    /\ DatesFrom(0)
    /\ now = MaxTime
    /\ queries = 4
    /\ Len(run_times) = 4
    /\ next_run_time = None

\* a _modify has returned or raised, called as such or for a pause or a
\* resumption
MutationDone == pc = "returned" /\ op \in {"modify", "pause", "resume"}

\* C22: the job Job(...) returns is pending (its _jobstore_alias is None);
\* the job is bound from the step in which a store alias is assigned to it,
\* and by no other step; _modify leaves _jobstore_alias as it was, whether it
\* commits or raises (a change set that names _jobstore_alias raises); and
\* no mutation, pause or resumption makes a bound job pending again.
C22_BindingState ==
    /\ [](CreateDone => pending(job))
    /\ []((pc = "returned" /\ op = "bind") =>
            pending(pre) /\ ~pending(job))
    /\ [](MutationDone =>
            /\ job["_jobstore_alias"] = pre["_jobstore_alias"]
            /\ Has(changes, "_jobstore_alias") => outcome # "ok" /\ job = pre)
    /\ [][/\ (Created /\ ~pending(job)) => ~pending(job')
          /\ (Created /\ pending(job) /\ ~pending(job')) => op' = "bind"]_vars

\* A bound job was paused: its next_run_time is None, its store alias the
\* one it had.
C22_Witness ==
    /\ pc = "returned"
    /\ op = "pause"
    /\ outcome = "ok"
    /\ pre["next_run_time"] # None
    /\ job["next_run_time"] = None
    /\ job["_jobstore_alias"] = PyStr("db")

====
